---- MODULE Spec2Model ----
(***************************************************************************)
(* Model of the audify-plus loader (index.js): platform-key resolution,    *)
(* artifact verification, native-module loading and the decorated export   *)
(* surface.                                                                *)
(*                                                                         *)
(* Strings built by template literals are modelled as sequences of tokens  *)
(* (the literal pieces and the interpolated values, in order); a path or   *)
(* a platform key is one string.  Only the console.error channel is        *)
(* modelled in `console'.  An outcome is a record whose kind is "return"   *)
(* or "throw".                                                             *)
(***************************************************************************)
EXTENDS FiniteSets, Integers, Sequences, TLC

(***************************************************************************)
(* Bounds and input sets                                                   *)
(***************************************************************************)
\* number of file-system changes made by the environment in one behaviour
MaxFsChanges == 2

\* number of runs of the download script in one behaviour
MaxRuns == 2

\* number of failures (of a download, an extraction or a search) the
\* environment causes in one behaviour
MaxFailures == 2

\* values os.platform() and os.arch() are drawn from
OsPlatforms == {"win32", "darwin", "linux", "freebsd"}
OsArches == {"x64", "ia32", "arm64", "arm"}

\* state of one file as seen by fs.existsSync / fs.accessSync(R_OK)
FileStates == {"absent", "unreadable", "readable"}

\* permission bits of a freshly unpacked file, of a file nobody may read, and
\* of no file
DefaultMode == "0o644"
NoAccessMode == "0o000"
NoMode == "none"

\* <<receiver, argument list>> used when calling an exported function
CallInputs == {<<"audify", <<>> >>, <<"other", <<48000, 2>> >>}

(***************************************************************************)
(* index.js: tables                                                        *)
(***************************************************************************)
\* a table that lacks the win32-arm64 entry
PLATFORM_MAP_NoWinArm64 ==
  << <<"win32-x64", "win32-x64">>,
     <<"win32-ia32", "win32-ia32">>,
     <<"darwin-x64", "darwin-x64">>,
     <<"darwin-arm64", "darwin-arm64">>,
     <<"linux-x64", "linux-x64">>,
     <<"linux-arm64", "linux-arm64">>,
     <<"linux-arm", "linux-arm">> >>

\* object literal, in insertion order: <<key, directory>>
PLATFORM_MAP ==
  << <<"win32-x64", "win32-x64">>,
     <<"win32-ia32", "win32-ia32">>,
     <<"win32-arm64", "win32-arm64">>,
     <<"darwin-x64", "darwin-x64">>,
     <<"darwin-arm64", "darwin-arm64">>,
     <<"linux-x64", "linux-x64">>,
     <<"linux-arm64", "linux-arm64">>,
     <<"linux-arm", "linux-arm">> >>

OpusApplication ==
  ("OPUS_APPLICATION_VOIP" :> 2048) @@ ("OPUS_APPLICATION_AUDIO" :> 2049) @@
  ("OPUS_APPLICATION_RESTRICTED_LOWDELAY" :> 2051)

RtAudioApi ==
  ("RTAUDIO_API_UNSPECIFIED" :> 0) @@ ("RTAUDIO_API_LINUX_ALSA" :> 1) @@
  ("RTAUDIO_API_LINUX_PULSE" :> 2) @@ ("RTAUDIO_API_LINUX_OSS" :> 3) @@
  ("RTAUDIO_API_UNIX_JACK" :> 4) @@ ("RTAUDIO_API_MACOSX_CORE" :> 5) @@
  ("RTAUDIO_API_WINDOWS_WASAPI" :> 6) @@ ("RTAUDIO_API_WINDOWS_ASIO" :> 7) @@
  ("RTAUDIO_API_WINDOWS_DS" :> 8) @@ ("RTAUDIO_API_RTAUDIO_DUMMY" :> 9)

\* a format table whose FLOAT64 is the OR of SINT32 and FLOAT32
RtAudioFormat_Float64Overlaps ==
  ("RTAUDIO_FORMAT_SINT8" :> 1) @@ ("RTAUDIO_FORMAT_SINT16" :> 2) @@
  ("RTAUDIO_FORMAT_SINT24" :> 4) @@ ("RTAUDIO_FORMAT_SINT32" :> 8) @@
  ("RTAUDIO_FORMAT_FLOAT32" :> 16) @@ ("RTAUDIO_FORMAT_FLOAT64" :> 24)

RtAudioFormat ==
  ("RTAUDIO_FORMAT_SINT8" :> 1) @@ ("RTAUDIO_FORMAT_SINT16" :> 2) @@
  ("RTAUDIO_FORMAT_SINT24" :> 4) @@ ("RTAUDIO_FORMAT_SINT32" :> 8) @@
  ("RTAUDIO_FORMAT_FLOAT32" :> 16) @@ ("RTAUDIO_FORMAT_FLOAT64" :> 32)

RtAudioStreamFlags ==
  ("RTAUDIO_FLAGS_NONINTERLEAVED" :> 1) @@ ("RTAUDIO_FLAGS_MINIMIZE_LATENCY" :> 2) @@
  ("RTAUDIO_FLAGS_HOG_DEVICE" :> 4) @@ ("RTAUDIO_FLAGS_SCHEDULE_REALTIME" :> 8) @@
  ("RTAUDIO_FLAGS_ALSA_USE_DEFAULT" :> 16) @@ ("RTAUDIO_FLAGS_JACK_DONT_CONNECT" :> 32)

RtAudioErrorType ==
  ("RTAUDIO_ERROR_WARNING" :> 0) @@ ("RTAUDIO_ERROR_DEBUG_WARNING" :> 1) @@
  ("RTAUDIO_ERROR_UNSPECIFIED" :> 2) @@ ("RTAUDIO_ERROR_NO_DEVICES_FOUND" :> 3) @@
  ("RTAUDIO_ERROR_INVALID_DEVICE" :> 4) @@ ("RTAUDIO_ERROR_MEMORY_ERROR" :> 5) @@
  ("RTAUDIO_ERROR_INVALID_PARAMETER" :> 6) @@ ("RTAUDIO_ERROR_INVALID_USE" :> 7) @@
  ("RTAUDIO_ERROR_DRIVER_ERROR" :> 8) @@ ("RTAUDIO_ERROR_SYSTEM_ERROR" :> 9) @@
  ("RTAUDIO_ERROR_THREAD_ERROR" :> 10)

(***************************************************************************)
(* JavaScript helpers                                                      *)
(***************************************************************************)
\* Object.keys(PLATFORM_MAP): the own keys in insertion order
ObjectKeys(map) == [i \in 1..Len(map) |-> map[i][1]]

\* map[key] on an object literal: the value, or "" for undefined.  A key
\* of the form `${platform}-${arch}` holds a hyphen, so it never names a
\* property inherited from Object.prototype.
Lookup(map, key) ==
  IF \E i \in 1..Len(map) : map[i][1] = key
  THEN map[CHOOSE i \in 1..Len(map) : map[i][1] = key][2]
  ELSE ""

\* Array.prototype.join(sep), as a token sequence
RECURSIVE Join(_, _)
Join(seq, sep) ==
  IF Len(seq) = 0 THEN <<>>
  ELSE IF Len(seq) = 1 THEN <<seq[1]>>
  ELSE <<seq[1], sep>> \o Join(Tail(seq), sep)

\* the tokens of a message
Tokens(msg) == {msg[i] : i \in 1..Len(msg)}

\* __dirname of index.js
Dirname == "<root>"

\* path.join(__dirname, "prebuilds", folder, "build", "Release", "audify.node");
\* "/" stands for path.sep of the running platform
PathJoin(folder) ==
  Dirname \o "/" \o "prebuilds" \o "/" \o folder \o "/" \o "build" \o "/"
          \o "Release" \o "/" \o "audify.node"

\* every artifact path of the package
ArtifactPaths == {PathJoin(PLATFORM_MAP[i][2]) : i \in 1..Len(PLATFORM_MAP)}

(***************************************************************************)
(* index.js: getBinaryPath                                                 *)
(***************************************************************************)
PlatformKey(platform, arch) == platform \o "-" \o arch

\* a getBinaryPath whose error names the key but not the supported keys
getBinaryPath_NoList(platform, arch) ==
  LET key == PlatformKey(platform, arch)
      platformFolder == Lookup(PLATFORM_MAP, key)
  IN IF platformFolder = ""
     THEN [kind |-> "throw",
           message |-> <<"[Audify-JS-Plus] Unsupported platform: ", key>>]
     ELSE [kind |-> "return", value |-> PathJoin(platformFolder)]

getBinaryPath(platform, arch) ==
  LET key == PlatformKey(platform, arch)
      platformFolder == Lookup(PLATFORM_MAP, key)
  IN IF platformFolder = ""
     THEN [kind |-> "throw",
           message |-> <<"[Audify-JS-Plus] Unsupported platform: ", key, ". ",
                         "Supported platforms: ">>
                       \o Join(ObjectKeys(PLATFORM_MAP), ", ")]
     ELSE [kind |-> "return", value |-> PathJoin(platformFolder)]

(***************************************************************************)
(* index.js: verifyBinary                                                  *)
(***************************************************************************)
\* fs.existsSync: never throws
existsSync(f, p) == p \in DOMAIN f /\ f[p] # "absent"

\* fs.accessSync(p, R_OK): returns, or throws ENOENT / EACCES
accessSync(f, p) ==
  IF ~existsSync(f, p) THEN [kind |-> "throw", message |-> <<"ENOENT: ", p>>]
  ELSE IF f[p] = "unreadable" THEN [kind |-> "throw", message |-> <<"EACCES: ", p>>]
  ELSE [kind |-> "return"]

\* the body of the try block: the boolean returned, or the exception of
\* accessSync; log is the console.error line written, if any
verifyBinaryTry(f, binaryPath) ==
  IF ~existsSync(f, binaryPath)
  THEN [kind |-> "return", value |-> FALSE,
        log |-> << <<"[Audify-JS-Plus] Binary not found: ", binaryPath>> >>]
  ELSE LET a == accessSync(f, binaryPath)
       IN IF a.kind = "throw"
          THEN [kind |-> "throw", message |-> a.message, log |-> <<>>]
          ELSE [kind |-> "return", value |-> TRUE, log |-> <<>>]

\* a verifyBinary that checks existence only
verifyBinary_ExistsOnly(f, binaryPath) ==
  IF ~existsSync(f, binaryPath)
  THEN [kind |-> "return", value |-> FALSE,
        log |-> << <<"[Audify-JS-Plus] Binary not found: ", binaryPath>> >>]
  ELSE [kind |-> "return", value |-> TRUE, log |-> <<>>]

\* try { ... } catch (error) { console.error(..., error.message); return false }
verifyBinary(f, binaryPath) ==
  LET t == verifyBinaryTry(f, binaryPath)
  IN IF t.kind = "throw"
     THEN [kind |-> "return", value |-> FALSE,
           log |-> << <<"[Audify-JS-Plus] Binary verification failed:">>
                      \o t.message >>]
     ELSE t

(***************************************************************************)
(* index.js: loadNativeModule and the module-level try/catch               *)
(***************************************************************************)
\* error messages of the dynamic loader for a file it rejects
LoaderErrors ==
  { <<"ERR_DLOPEN_FAILED: invalid ELF header">>,
    <<"Module did not self-register">> }

\* raw native modules the loader may return, as <<key, value>> in insertion
\* order: the genuine classes, a module with non-function exports (one named
\* like a constant table), a module with a function named like a utility
RawModules ==
  { << <<"RtAudio", [type |-> "function", id |-> "RtAudio"]>>,
       <<"OpusEncoder", [type |-> "function", id |-> "OpusEncoder"]>> >>,
    << <<"RtAudio", [type |-> "function", id |-> "RtAudio"]>>,
       <<"RtAudioApi", [type |-> "number", num |-> 8]>>,
       <<"napiVersion", [type |-> "number", num |-> 8]>> >>,
    << <<"getDevices", [type |-> "function", id |-> "getDevices"]>>,
       <<"healthCheck", [type |-> "function", id |-> "nativeHealthCheck"]>> >> }

\* require(binaryPath): the module, or the loader's / resolver's exception
RequireOutcomes(f, binaryPath) ==
  IF ~existsSync(f, binaryPath)
  THEN {[kind |-> "throw", message |-> <<"Cannot find module ", binaryPath>>]}
  ELSE IF f[binaryPath] = "unreadable"
  THEN {[kind |-> "throw", message |-> <<"EACCES: ", binaryPath>>]}
  ELSE {[kind |-> "throw", message |-> m] : m \in LoaderErrors}
       \cup {[kind |-> "return", value |-> r] : r \in RawModules}

\* an error that does not say which path failed
CannotLoadError_NoPath(binaryPath) ==
  [message |-> <<"[Audify-JS-Plus] Cannot load binary. ",
                 "Please ensure the binary exists and is accessible.">>]

\* thrown by loadNativeModule when verifyBinary returns false
CannotLoadError(binaryPath) ==
  [message |-> <<"[Audify-JS-Plus] Cannot load binary: ", binaryPath, ". ",
                 "Please ensure the binary exists and is accessible.">>]

\* a verification step that logs the failure and carries on
loadNativeModuleVerify_WarnOnly(f, binaryPath) ==
  [kind |-> "return", log |-> verifyBinary(f, binaryPath).log]

\* if (!verifyBinary(binaryPath)) throw ...: the outcome of the statement
loadNativeModuleVerify(f, binaryPath) ==
  LET v == verifyBinary(f, binaryPath)
  IN IF v.kind = "throw"
     THEN [kind |-> "throw", error |-> [message |-> v.message], log |-> v.log]
     ELSE IF ~v.value
     THEN [kind |-> "throw", error |-> CannotLoadError(binaryPath), log |-> v.log]
     ELSE [kind |-> "return", log |-> v.log]

\* thrown by loadNativeModule when require raises `error'
LoadFailureError(binaryPath, error) ==
  [message |-> <<"[Audify-JS-Plus] Failed to load native module from ",
                 binaryPath, ": ">> \o error.message]

\* a catch block whose VS Code error drops the original message
InitCatch_NoOriginal(error, vscode) ==
  IF vscode
  THEN [message |-> <<"[Audify-JS-Plus] Failed to initialize in VS Code extension. ",
                      "This might be due to missing native binaries or platform incompatibility. ">>]
  ELSE error

\* the catch block around loadNativeModule(): the error that leaves the module
InitCatch(error, vscode) ==
  IF vscode
  THEN [message |-> <<"[Audify-JS-Plus] Failed to initialize in VS Code extension. ",
                      "This might be due to missing native binaries or platform incompatibility. ",
                      "Original error: ">> \o error.message]
  ELSE error

\* the console.error line of that catch block
InitCatchLog(error) ==
  <<"[Audify-JS-Plus] Initialization failed:">> \o error.message

(***************************************************************************)
(* index.js: withErrorHandling                                             *)
(***************************************************************************)
\* the function returned by withErrorHandling(fn, functionName)
withErrorHandling(fn, functionName) ==
  [type |-> "function", wrapped |-> TRUE, fn |-> fn, functionName |-> functionName]

\* what the returned function passes to fn.apply
WrapperApply(w, thisArg, args) == [fn |-> w.fn, this |-> thisArg, args |-> args]

\* a wrapper that logs the error and returns undefined instead of rethrowing
WrapperOutcome_Swallow(w, applied) ==
  IF applied.kind = "throw"
  THEN [outcome |-> [kind |-> "return", value |-> 0],
        log |-> << <<"[Audify-JS-Plus] Error in ", w.functionName, ":">>
                   \o applied.error.message >>]
  ELSE [outcome |-> applied, log |-> <<>>]

\* the returned function's outcome and log, given the outcome of fn.apply
WrapperOutcome(w, applied) ==
  IF applied.kind = "throw"
  THEN [outcome |-> applied,
        log |-> << <<"[Audify-JS-Plus] Error in ", w.functionName, ":">>
                   \o applied.error.message >>]
  ELSE [outcome |-> applied, log |-> <<>>]

(***************************************************************************)
(* index.js: getPlatformInfo, healthCheck, audifyExports                   *)
(***************************************************************************)
getPlatformInfo(platform, arch) ==
  LET g == getBinaryPath(platform, arch)
  IN IF g.kind = "throw" THEN g
     ELSE [kind |-> "return",
           value |-> [platform |-> platform, arch |-> arch,
                      key |-> PlatformKey(platform, arch),
                      binaryPath |-> g.value],
           log |-> <<>>]

\* the body of healthCheck's try block
healthCheckTry(platform, arch, f) ==
  LET g == getBinaryPath(platform, arch)
  IN IF g.kind = "throw" THEN [kind |-> "throw", message |-> g.message, log |-> <<>>]
     ELSE LET v == verifyBinary(f, g.value)
          IN IF v.kind = "throw" THEN v
             ELSE [kind |-> "return",
                   value |-> [status |-> IF v.value THEN "healthy" ELSE "unhealthy",
                              platform |-> PlatformKey(platform, arch),
                              binaryPath |-> g.value,
                              binaryExists |-> v.value],
                   log |-> v.log]

\* a healthCheck that reports os.platform() alone as the platform
healthCheck_PlatformOnly(platform, arch, f) ==
  LET t == healthCheckTry(platform, arch, f)
  IN IF t.kind = "throw"
     THEN [kind |-> "return",
           value |-> [status |-> "error", error |-> t.message, platform |-> platform],
           log |-> t.log]
     ELSE [kind |-> "return",
           value |-> [t.value EXCEPT !.platform = platform],
           log |-> t.log]

\* a healthCheck without the try/catch
healthCheck_NoCatch(platform, arch, f) == healthCheckTry(platform, arch, f)

\* a healthCheck whose error report leaves out the platform
healthCheck_NoPlatform(platform, arch, f) ==
  LET t == healthCheckTry(platform, arch, f)
  IN IF t.kind = "throw"
     THEN [kind |-> "return",
           value |-> [status |-> "error", error |-> t.message],
           log |-> t.log]
     ELSE t

\* a healthCheck that answers from the verification made when the module loaded
healthCheck_AsAtLoad(platform, arch, f) ==
  LET t == healthCheckTry(platform, arch, [p \in DOMAIN f |-> "readable"])
  IN IF t.kind = "throw"
     THEN [kind |-> "return",
           value |-> [status |-> "error", error |-> t.message,
                      platform |-> PlatformKey(platform, arch)],
           log |-> t.log]
     ELSE t

healthCheck(platform, arch, f) ==
  LET t == healthCheckTry(platform, arch, f)
  IN IF t.kind = "throw"
     THEN [kind |-> "return",
           value |-> [status |-> "error", error |-> t.message,
                      platform |-> PlatformKey(platform, arch)],
           log |-> t.log]
     ELSE t

\* the keys of a raw module and the value of one of them
RawKeys(raw) == {raw[i][1] : i \in 1..Len(raw)}
RawGet(raw, key) == raw[CHOOSE i \in 1..Len(raw) : raw[i][1] = key][2]

\* the properties the object literal sets after the spread
OwnExports ==
  ("OpusApplication" :> [type |-> "object", table |-> OpusApplication]) @@
  ("RtAudioApi" :> [type |-> "object", table |-> RtAudioApi]) @@
  ("RtAudioFormat" :> [type |-> "object", table |-> RtAudioFormat]) @@
  ("RtAudioStreamFlags" :> [type |-> "object", table |-> RtAudioStreamFlags]) @@
  ("RtAudioErrorType" :> [type |-> "object", table |-> RtAudioErrorType]) @@
  ("getPlatformInfo" :> [type |-> "function", own |-> "getPlatformInfo"]) @@
  ("version" :> [type |-> "string", str |-> "2.0.1"]) @@
  ("healthCheck" :> [type |-> "function", own |-> "healthCheck"])

\* the object literal: ...rawAudify first, then the own properties
audifyExportsLiteral(raw) ==
  OwnExports @@ [k \in RawKeys(raw) |-> RawGet(raw, k)]

\* the literal after the loop that wraps every function of rawAudify
audifyExports(raw) ==
  LET lit == audifyExportsLiteral(raw)
  IN [k \in DOMAIN lit |->
        IF k \in RawKeys(raw) /\ RawGet(raw, k).type = "function"
        THEN withErrorHandling(RawGet(raw, k), k)
        ELSE lit[k]]

(***************************************************************************)
(* scripts/postinstall.js                                                  *)
(***************************************************************************)
\* "Platform mapping (same as in index.js)"
PI_PLATFORM_MAP ==
  << <<"win32-x64", "win32-x64">>,
     <<"win32-ia32", "win32-ia32">>,
     <<"win32-arm64", "win32-arm64">>,
     <<"darwin-x64", "darwin-x64">>,
     <<"darwin-arm64", "darwin-arm64">>,
     <<"linux-x64", "linux-x64">>,
     <<"linux-arm64", "linux-arm64">>,
     <<"linux-arm", "linux-arm">> >>

\* permission bits passed to fs.chmodSync
ExecutableMode == "0o755"

\* getCurrentPlatform
PI_getCurrentPlatform(platform, arch) == platform \o "-" \o arch

\* null is the empty string; path.join(__dirname, '..', 'prebuilds', ...) with
\* __dirname the scripts directory names the same file as index.js does
PI_getBinaryPath(platform, arch) ==
  LET key == PI_getCurrentPlatform(platform, arch)
      folder == Lookup(PI_PLATFORM_MAP, key)
  IN IF folder = ""
     THEN [kind |-> "return", value |-> "",
           warn |-> << <<"[Audify-JS-Plus] Warning: No prebuilt binary available for ", key>> >>]
     ELSE [kind |-> "return", value |-> PathJoin(folder), warn |-> <<>>]

\* the body of setBinaryPermissions after the win32 test: the value returned
\* or the exception of chmodSync, the files afterwards and the fs calls made;
\* chmodOk is whether the operating system permits the change
setBinaryPermissionsTry(f, m, binaryPath, chmodOk) ==
  IF ~existsSync(f, binaryPath)
  THEN [kind |-> "return", value |-> FALSE, fs |-> f, mode |-> m,
        calls |-> <<"existsSync">>]
  ELSE IF chmodOk
  THEN [kind |-> "return", value |-> TRUE,
        fs |-> [f EXCEPT ![binaryPath] = "readable"],
        mode |-> [m EXCEPT ![binaryPath] = ExecutableMode],
        calls |-> <<"existsSync", "chmodSync">>]
  ELSE [kind |-> "throw", message |-> <<"EPERM: ", binaryPath>>, fs |-> f, mode |-> m,
        calls |-> <<"existsSync", "chmodSync">>]

\* if (process.platform === 'win32') return true; try {...} catch { return false }
setBinaryPermissions(platform, f, m, binaryPath, chmodOk) ==
  IF platform = "win32"
  THEN [kind |-> "return", value |-> TRUE, fs |-> f, mode |-> m, calls |-> <<>>]
  ELSE LET t == setBinaryPermissionsTry(f, m, binaryPath, chmodOk)
       IN IF t.kind = "throw"
          THEN [kind |-> "return", value |-> FALSE, fs |-> t.fs, mode |-> t.mode,
                calls |-> t.calls]
          ELSE t

\* runHealthCheck: require('../index.js') and report whether healthCheck()
\* says healthy; loads is whether the dynamic load of the artifact succeeds;
\* any exception is caught
runHealthCheck(platform, arch, f, loads) ==
  LET g == getBinaryPath(platform, arch)
  IN IF g.kind = "throw" THEN [kind |-> "return", value |-> FALSE]
     ELSE IF ~verifyBinary(f, g.value).value THEN [kind |-> "return", value |-> FALSE]
     ELSE IF ~loads THEN [kind |-> "return", value |-> FALSE]
     ELSE [kind |-> "return",
           value |-> healthCheck(platform, arch, f).value.status = "healthy"]

\* a main that goes on with a null path
PI_main_NoNullTest(platform, arch, f, m, chmodOk) ==
  LET b == PI_getBinaryPath(platform, arch)
      p == setBinaryPermissions(platform, f, m, b.value, chmodOk)
  IN [kind |-> "return", path |-> b.value, fs |-> p.fs, mode |-> p.mode,
      calls |-> p.calls, permissions |-> <<p.value>>,
      scheduled |-> <<"runHealthCheck">>]

\* main: the files afterwards, the fs calls made, the values returned by the
\* calls of setBinaryPermissions and the callbacks passed to setTimeout
PI_main(platform, arch, f, m, chmodOk) ==
  LET b == PI_getBinaryPath(platform, arch)
  IN IF b.value = ""
     THEN [kind |-> "return", path |-> "", fs |-> f, mode |-> m, calls |-> <<>>,
           permissions |-> <<>>, scheduled |-> <<>>]
     ELSE LET p == setBinaryPermissions(platform, f, m, b.value, chmodOk)
          IN [kind |-> "return", path |-> b.value, fs |-> p.fs, mode |-> p.mode,
              calls |-> p.calls, permissions |-> <<p.value>>,
              scheduled |-> <<"runHealthCheck">>]

(***************************************************************************)
(* scripts/check-binary.js                                                 *)
(***************************************************************************)
CB_PLATFORM_MAP ==
  << <<"win32-x64", "win32-x64">>,
     <<"win32-ia32", "win32-ia32">>,
     <<"win32-arm64", "win32-arm64">>,
     <<"darwin-x64", "darwin-x64">>,
     <<"darwin-arm64", "darwin-arm64">>,
     <<"linux-x64", "linux-x64">>,
     <<"linux-arm64", "linux-arm64">>,
     <<"linux-arm", "linux-arm">> >>

CB_getBinaryPath(platform, arch) ==
  LET key == platform \o "-" \o arch
      folder == Lookup(CB_PLATFORM_MAP, key)
  IN IF folder = ""
     THEN [kind |-> "return", value |-> "",
           log |-> << <<"\n[Audify-JS-Plus] Warning: No prebuilt binary available for ", key>> >>]
     ELSE [kind |-> "return", value |-> PathJoin(folder), log |-> <<>>]

\* outcomes of fs.readdirSync(path.dirname(binaryPath))
ListingOutcomes ==
  { [kind |-> "throw", message |-> <<"EACCES: scandir">>],
    [kind |-> "return", value |-> {"audify.node"}],
    [kind |-> "return", value |-> {"audify.node", "libopus.dll"}] }

\* the body of the try block of verifyBinary; listing is the outcome of
\* readdirSync
CB_verifyBinaryTry(platform, f, binaryPath, listing) ==
  IF ~existsSync(f, binaryPath)
  THEN [kind |-> "return", value |-> FALSE, calls |-> <<"existsSync">>]
  ELSE LET a == accessSync(f, binaryPath)
       IN IF a.kind = "throw"
          THEN [kind |-> "throw", message |-> a.message,
                calls |-> <<"existsSync", "accessSync">>]
          ELSE IF listing.kind = "throw"
          THEN [kind |-> "throw", message |-> listing.message,
                calls |-> <<"existsSync", "accessSync", "readdirSync">>]
          ELSE [kind |-> "return", value |-> TRUE,
                calls |-> <<"existsSync", "accessSync", "readdirSync">>]

\* if (!binaryPath) return false; try {...} catch { return false }
CB_verifyBinary(platform, f, binaryPath, listing) ==
  IF binaryPath = ""
  THEN [kind |-> "return", value |-> FALSE, calls |-> <<>>]
  ELSE LET t == CB_verifyBinaryTry(platform, f, binaryPath, listing)
       IN IF t.kind = "throw"
          THEN [kind |-> "return", value |-> FALSE, calls |-> t.calls]
          ELSE t

\* main: verifyBinary(getBinaryPath()); the script changes no file
CB_main(platform, arch, f, listing) ==
  LET b == CB_getBinaryPath(platform, arch)
      v == CB_verifyBinary(platform, f, b.value, listing)
  IN [kind |-> "return", path |-> b.value, verified |-> v.value, calls |-> v.calls]

(***************************************************************************)
(* package.json                                                            *)
(***************************************************************************)
\* "scripts"
PackageScripts ==
  ("docs" :> "typedoc index.d.ts --hideGenerator --name Audify.js") @@
  ("rebuild" :> "cmake-js compile") @@
  ("install" :> "node scripts/check-binary.js") @@
  ("deploy" :> "np --yolo") @@
  ("build-binaries" :> "run-script-os") @@
  ("build-binaries:win32" :>
     "node --security-revert=CVE-2024-27980 ./node_modules/prebuild/bin.js --backend cmake-js --include-regex \"^.*\\.(node|dylib|dll|so(\\.[0-9])?)$\" -r napi --all --verbose -u %GITHUB_TOKEN%") @@
  ("build-binaries:darwin:linux" :>
     "prebuild --backend cmake-js --include-regex \"^.*\\.(node|dylib|dll|so(\\.[0-9])?)$\" -r napi --all --verbose -u $GITHUB_TOKEN")

\* the commands `npm install' runs for the package, in order
InstallCommands ==
  LET hooks == SelectSeq(<<"preinstall", "install", "postinstall">>,
                         LAMBDA h : h \in DOMAIN PackageScripts)
  IN [i \in 1..Len(hooks) |-> PackageScripts[hooks[i]]]

(***************************************************************************)
(* direct-test.js: the second loader                                       *)
(***************************************************************************)
DT_platformMap ==
  << <<"win32-x64", "win32-x64">>,
     <<"win32-ia32", "win32-ia32">>,
     <<"darwin-x64", "darwin-x64">>,
     <<"darwin-arm64", "darwin-arm64">>,
     <<"linux-x64", "linux-x64">>,
     <<"linux-arm64", "linux-arm64">>,
     <<"linux-arm", "linux-arm">> >>

DT_OpusApplication ==
  ("OPUS_APPLICATION_VOIP" :> 2048) @@ ("OPUS_APPLICATION_AUDIO" :> 2049) @@
  ("OPUS_APPLICATION_RESTRICTED_LOWDELAY" :> 2051)

DT_RtAudioApi ==
  ("UNSPECIFIED" :> 0) @@ ("MACOSX_CORE" :> 1) @@ ("LINUX_ALSA" :> 2) @@
  ("UNIX_JACK" :> 3) @@ ("LINUX_PULSE" :> 4) @@ ("LINUX_OSS" :> 5) @@
  ("WINDOWS_ASIO" :> 6) @@ ("WINDOWS_WASAPI" :> 7) @@ ("WINDOWS_DS" :> 8) @@
  ("RTAUDIO_DUMMY" :> 9)

DT_RtAudioFormat ==
  ("RTAUDIO_SINT8" :> 1) @@ ("RTAUDIO_SINT16" :> 2) @@ ("RTAUDIO_SINT24" :> 4) @@
  ("RTAUDIO_SINT32" :> 8) @@ ("RTAUDIO_FLOAT32" :> 16) @@ ("RTAUDIO_FLOAT64" :> 32)

DT_RtAudioStreamFlags ==
  ("RTAUDIO_NONINTERLEAVED" :> 1) @@ ("RTAUDIO_MINIMIZE_LATENCY" :> 2) @@
  ("RTAUDIO_HOG_DEVICE" :> 4) @@ ("RTAUDIO_SCHEDULE_REALTIME" :> 8) @@
  ("RTAUDIO_ALSA_USE_DEFAULT" :> 16) @@ ("RTAUDIO_JACK_DONT_CONNECT" :> 32)

DT_RtAudioErrorType ==
  ("WARNING" :> 0) @@ ("DEBUG_WARNING" :> 1) @@ ("UNSPECIFIED" :> 2) @@
  ("NO_DEVICES_FOUND" :> 3) @@ ("INVALID_DEVICE" :> 4) @@ ("MEMORY_ERROR" :> 5) @@
  ("INVALID_PARAMETER" :> 6) @@ ("INVALID_USE" :> 7) @@ ("DRIVER_ERROR" :> 8) @@
  ("SYSTEM_ERROR" :> 9) @@ ("THREAD_ERROR" :> 10)

\* the path the second loader requires, or its Unsupported platform error
DT_binaryPath(platform, arch) ==
  LET key == platform \o "-" \o arch
      dir == Lookup(DT_platformMap, key)
  IN IF dir = ""
     THEN [kind |-> "throw", message |-> <<"Unsupported platform: ", key>>]
     ELSE [kind |-> "return", value |-> PathJoin(dir)]

(***************************************************************************)
(* scripts/download_binaries_script.js                                     *)
(***************************************************************************)
\* <<file, platform>> in list order
BINARIES ==
  << <<"audify-v1.9.0-napi-v8-darwin-arm64.tar.gz", "darwin-arm64">>,
     <<"audify-v1.9.0-napi-v8-darwin-x64.tar.gz", "darwin-x64">>,
     <<"audify-v1.9.0-napi-v8-linux-arm.tar.gz", "linux-arm">>,
     <<"audify-v1.9.0-napi-v8-linux-arm64.tar.gz", "linux-arm64">>,
     <<"audify-v1.9.0-napi-v8-linux-x64.tar.gz", "linux-x64">>,
     <<"audify-v1.9.0-napi-v8-win32-ia32.tar.gz", "win32-ia32">>,
     <<"audify-v1.9.0-napi-v8-win32-x64.tar.gz", "win32-x64">> >>

\* path.join('downloads', file): the archives are named by their index in
\* BINARIES; path.join('prebuilds', platform, 'build', 'Release', 'audify.node')
\* from the package root
DL_targetPath(platform) == PathJoin(platform)

\* what the server and the disk do to one download: the status codes of the
\* responses in order (a redirect is followed by the response of the new
\* location), a request error, or a write error after a 200 response
DownloadResponses ==
  { <<"200">>, <<"302", "200">>, <<"404">>, <<"302", "404">>, <<"ECONNRESET">>,
    <<"200", "ENOSPC">> }

\* downloadFile: fs.createWriteStream creates the file before the request is
\* made; the promise resolves on 'finish', rejects on a status other than
\* 200, on a request error and on a write error; only the write error
\* handler unlinks the file
RECURSIVE downloadFile(_)
downloadFile(responses) ==
  IF Head(responses) \in {"301", "302"} THEN downloadFile(Tail(responses))
  ELSE IF Head(responses) = "200"
  THEN IF Len(responses) = 1
       THEN [kind |-> "resolve", file |-> "complete"]
       ELSE [kind |-> "reject", file |-> "absent",
             message |-> <<responses[2]>>]
  ELSE IF Head(responses) = "ECONNRESET"
  THEN [kind |-> "reject", file |-> "partial", message |-> <<"ECONNRESET">>]
  ELSE [kind |-> "reject", file |-> "partial",
        message |-> <<"HTTP ", Head(responses)>>]

\* extractTarGz: tar fails on an archive that is not complete, and may fail
\* on a complete one (tarOk)
extractTarGz(archive, tarOk) ==
  IF archive = "complete" /\ tarOk
  THEN [kind |-> "return"]
  ELSE [kind |-> "throw", message |-> <<"Command failed: tar -xzf">>]

\* findAndMoveNodeFile: copies the first .node file found to the target
findAndMoveNodeFile(f, targetPath, found) ==
  IF found
  THEN [value |-> TRUE, fs |-> [f EXCEPT ![targetPath] = "readable"]]
  ELSE [value |-> FALSE, fs |-> f]

\* the body of the try block of one loop iteration: the archive and the
\* artifacts afterwards, whether the download was skipped, and the result
processBinaryTry(archive, f, platform, responses, tarOk, found) ==
  LET skipped == archive # "absent"
      d == IF skipped THEN [kind |-> "resolve", file |-> archive]
           ELSE downloadFile(responses)
  IN IF d.kind = "reject"
     THEN [kind |-> "throw", step |-> "download", file |-> d.file, fs |-> f,
           skipped |-> skipped]
     ELSE LET x == extractTarGz(d.file, tarOk)
          IN IF x.kind = "throw"
             THEN [kind |-> "throw", step |-> "extract", file |-> d.file, fs |-> f,
                   skipped |-> skipped]
             ELSE LET m == findAndMoveNodeFile(f, DL_targetPath(platform), found)
                  IN IF ~m.value
                     THEN [kind |-> "throw", step |-> "find", file |-> d.file,
                           fs |-> m.fs, skipped |-> skipped]
                     ELSE [kind |-> "return", step |-> "completed", file |-> d.file,
                           fs |-> m.fs, skipped |-> skipped]

\* a loop whose iterations have no try/catch
LoopCatch_Rethrow(t) == IF t.kind = "throw" THEN "rejected" ELSE "loop"

\* catch (error) { console.error(...) }: the loop goes on
LoopCatch(t) == "loop"

\* the summary: for every entry of BINARIES whether its target exists
Summary(f) ==
  [i \in 1..Len(BINARIES) |->
     <<BINARIES[i][2], existsSync(f, DL_targetPath(BINARIES[i][2]))>>]

(***************************************************************************)
(* State                                                                   *)
(***************************************************************************)
VARIABLES
  osPlatform,   \* os.platform() of the process
  osArch,       \* os.arch() of the process
  vscodePid,    \* whether process.env.VSCODE_PID is set
  fs,           \* the state of every artifact file of the package
  fsChanges,    \* number of file-system changes made so far
  pc,           \* position of module initialization
  steps,        \* the initialization steps run so far, in order
  binaryPath,   \* loadNativeModule's binaryPath, "" before it is computed
  rawAudify,    \* the loaded native module, <<>> before it is loaded
  thrown,       \* the error module initialization raised to its caller
  exports,      \* module.exports, empty until it is assigned
  last,         \* the last call made and its outcome
  console,      \* the console.error lines of the last step or call
  mode,         \* the permission bits of every artifact file (0 when absent)
  ran,          \* the install-time commands run so far
  timers,       \* the setTimeout callbacks of postinstall.js still pending
  downloads,    \* the state of every archive under downloads/
  dlPc,         \* position of downloadAndOrganizeBinaries
  dlIndex,      \* index into BINARIES of the entry processed next
  dlRuns,       \* number of runs of downloadAndOrganizeBinaries started
  dlFailures,   \* number of failures the environment has caused so far
  dlLog         \* the entries processed in the current run, with their result

vars == <<osPlatform, osArch, vscodePid, fs, fsChanges, pc, steps, binaryPath,
          rawAudify, thrown, exports, last, console, mode, ran, timers,
          downloads, dlPc, dlIndex, dlRuns, dlFailures, dlLog>>

env == <<osPlatform, osArch, vscodePid>>
loader == <<pc, steps, binaryPath, rawAudify, thrown, exports>>
installer == <<ran, timers>>
downloader == <<downloads, dlPc, dlIndex, dlRuns, dlFailures, dlLog>>

NoError == [message |-> <<>>]
NoCall == [op |-> "none"]

\* an outcome without its log
OutcomeOf(r) == [f \in DOMAIN r \ {"log"} |-> r[f]]

\* the state of the file at p, for the record of a call
FileAt(f, p) == IF p \in DOMAIN f THEN f[p] ELSE "absent"

\* module initialization has not begun
LoaderStart ==
  /\ pc = "start"
  /\ steps = <<>>
  /\ binaryPath = ""
  /\ rawAudify = <<>>
  /\ thrown = NoError
  /\ exports = <<>>
  /\ last = NoCall
  /\ console = <<>>

\* no install-time command has run
InstallerStart ==
  /\ ran = {}
  /\ timers = <<>>

\* downloadAndOrganizeBinaries has not run and downloads/ is empty
DownloaderStart ==
  /\ downloads = [i \in 1..Len(BINARIES) |-> "absent"]
  /\ dlPc = "idle"
  /\ dlIndex = 1
  /\ dlRuns = 0
  /\ dlFailures = 0
  /\ dlLog = <<>>

\* before the package is populated, or right after all artifacts are unpacked
Init ==
  /\ osPlatform \in OsPlatforms
  /\ osArch \in OsArches
  /\ vscodePid \in BOOLEAN
  /\ fs \in {[p \in ArtifactPaths |-> "absent"], [p \in ArtifactPaths |-> "readable"]}
  /\ mode = [p \in ArtifactPaths |-> IF fs[p] = "readable" THEN DefaultMode ELSE NoMode]
  /\ fsChanges = 0
  /\ InstallerStart
  /\ DownloaderStart
  /\ pc = "start"
  /\ steps = <<>>
  /\ binaryPath = ""
  /\ rawAudify = <<>>
  /\ thrown = NoError
  /\ exports = <<>>
  /\ last = NoCall
  /\ console = <<>>

(***************************************************************************)
(* The environment: other processes change the artifact files              *)
(***************************************************************************)
FsUnlink(p) ==
  /\ fsChanges < MaxFsChanges
  /\ fs[p] # "absent"
  /\ fs' = [fs EXCEPT ![p] = "absent"]
  /\ mode' = [mode EXCEPT ![p] = NoMode]
  /\ fsChanges' = fsChanges + 1
  /\ UNCHANGED <<env, installer, downloader, loader, last, console>>

FsCreate(p) ==
  /\ fsChanges < MaxFsChanges
  /\ fs[p] = "absent"
  /\ fs' = [fs EXCEPT ![p] = "readable"]
  /\ mode' = [mode EXCEPT ![p] = DefaultMode]
  /\ fsChanges' = fsChanges + 1
  /\ UNCHANGED <<env, installer, downloader, loader, last, console>>

FsChmod(p, readable) ==
  /\ fsChanges < MaxFsChanges
  /\ fs[p] # "absent"
  /\ fs[p] # (IF readable THEN "readable" ELSE "unreadable")
  /\ fs' = [fs EXCEPT ![p] = IF readable THEN "readable" ELSE "unreadable"]
  /\ mode' = [mode EXCEPT ![p] = IF readable THEN DefaultMode ELSE NoAccessMode]
  /\ fsChanges' = fsChanges + 1
  /\ UNCHANGED <<env, installer, downloader, loader, last, console>>

(***************************************************************************)
(* Module initialization: index.js lines 142-182 and 202-254               *)
(***************************************************************************)
\* loadNativeModule throws `error': the catch block logs and rethrows
InitFail(error, log) ==
  /\ pc' = "failed"
  /\ thrown' = InitCatch(error, vscodePid)
  /\ console' = log \o <<InitCatchLog(error)>>

\* const binaryPath = getBinaryPath()
InitGetBinaryPath ==
  /\ pc = "start"
  /\ steps' = steps \o <<"resolve", "map">>
  /\ LET g == getBinaryPath(osPlatform, osArch)
     IN /\ last' = [op |-> "getBinaryPath", outcome |-> g]
        /\ IF g.kind = "throw"
           THEN InitFail([message |-> g.message], <<>>) /\ UNCHANGED binaryPath
           ELSE /\ pc' = "mapped"
                /\ binaryPath' = g.value
                /\ UNCHANGED thrown
                /\ console' = <<>>
  /\ UNCHANGED <<env, installer, downloader, fs, mode, fsChanges, rawAudify, exports>>

\* if (!verifyBinary(binaryPath)) throw ...
InitVerifyBinary ==
  /\ pc = "mapped"
  /\ steps' = Append(steps, "verify")
  /\ LET v == verifyBinary(fs, binaryPath)
         r == loadNativeModuleVerify(fs, binaryPath)
     IN /\ last' = [op |-> "verifyBinary", path |-> binaryPath,
                    fileAt |-> FileAt(fs, binaryPath), outcome |-> OutcomeOf(v)]
        /\ IF r.kind = "throw"
           THEN InitFail(r.error, r.log)
           ELSE /\ pc' = "verified"
                /\ UNCHANGED thrown
                /\ console' = r.log
  /\ UNCHANGED <<env, installer, downloader, fs, mode, fsChanges, binaryPath, rawAudify, exports>>

\* const nativeModule = require(binaryPath), inside try/catch
InitRequire ==
  /\ pc = "verified"
  /\ steps' = Append(steps, "load")
  /\ \E o \in RequireOutcomes(fs, binaryPath) :
       /\ last' = [op |-> "require", path |-> binaryPath, outcome |-> o]
       /\ IF o.kind = "throw"
          THEN /\ InitFail(LoadFailureError(binaryPath, o),
                           << <<"[Audify-JS-Plus] Failed to load native module:">>
                              \o o.message >>)
               /\ UNCHANGED rawAudify
          ELSE /\ pc' = "loaded"
               /\ rawAudify' = o.value
               /\ UNCHANGED thrown
               /\ console' = <<>>
  /\ UNCHANGED <<env, installer, downloader, fs, mode, fsChanges, binaryPath, exports>>

\* const audifyExports = {...}; the wrapping loop; module.exports = audifyExports
InitDecorate ==
  /\ pc = "loaded"
  /\ steps' = Append(steps, "decorate")
  /\ exports' = audifyExports(rawAudify)
  /\ pc' = "done"
  /\ console' = <<>>
  /\ UNCHANGED <<env, installer, downloader, fs, mode, fsChanges, binaryPath, rawAudify, thrown, last>>

(***************************************************************************)
(* Calls                                                                   *)
(***************************************************************************)
\* outcomes of a native function
RawOutcomes ==
  { [kind |-> "return", value |-> 7],
    [kind |-> "throw", error |-> [message |-> <<"RtAudio: no device">>]] }

ApplyGetBinaryPath ==
  /\ LET g == getBinaryPath(osPlatform, osArch)
     IN last' = [op |-> "getBinaryPath", outcome |-> g]
  /\ console' = <<>>
  /\ UNCHANGED <<env, installer, downloader, fs, mode, fsChanges, loader>>

ApplyVerifyBinary(p) ==
  /\ LET v == verifyBinary(fs, p)
     IN /\ last' = [op |-> "verifyBinary", path |-> p, fileAt |-> FileAt(fs, p),
                    outcome |-> OutcomeOf(v)]
        /\ console' = v.log
  /\ UNCHANGED <<env, installer, downloader, fs, mode, fsChanges, loader>>

ApplyGetPlatformInfo ==
  /\ LET g == getPlatformInfo(osPlatform, osArch)
     IN last' = [op |-> "getPlatformInfo", outcome |-> OutcomeOf(g)]
  /\ console' = <<>>
  /\ UNCHANGED <<env, installer, downloader, fs, mode, fsChanges, loader>>

ApplyHealthCheck ==
  /\ LET h == healthCheck(osPlatform, osArch, fs)
         g == getBinaryPath(osPlatform, osArch)
     IN /\ last' = [op |-> "healthCheck",
                    fileAt |-> IF g.kind = "return" THEN FileAt(fs, g.value) ELSE "none",
                    outcome |-> OutcomeOf(h)]
        /\ console' = h.log
  /\ UNCHANGED <<env, installer, downloader, fs, mode, fsChanges, loader>>

\* audify.getPlatformInfo()
GetPlatformInfo ==
  /\ pc = "done"
  /\ exports["getPlatformInfo"] = OwnExports["getPlatformInfo"]
  /\ ApplyGetPlatformInfo

\* audify.healthCheck(), when the property still holds the loader's function
HealthCheck ==
  /\ pc = "done"
  /\ exports["healthCheck"] = OwnExports["healthCheck"]
  /\ ApplyHealthCheck

\* audify[key].apply(thisArg, args) for a wrapped native function; the native
\* function's outcome o is the environment's choice
CallExport(key, thisArg, args, o) ==
  /\ pc = "done"
  /\ key \in DOMAIN exports
  /\ exports[key].type = "function"
  /\ "wrapped" \in DOMAIN exports[key]
  /\ LET w == exports[key]
         r == WrapperOutcome(w, o)
     IN /\ last' = [op |-> "call", key |-> key, this |-> thisArg, args |-> args,
                    applied |-> WrapperApply(w, thisArg, args),
                    rawOutcome |-> o, outcome |-> r.outcome]
        /\ console' = r.log
  /\ UNCHANGED <<env, installer, downloader, fs, mode, fsChanges, loader>>

(***************************************************************************)
(* Specifications                                                          *)
(***************************************************************************)
FsStep ==
  \E p \in ArtifactPaths :
    \/ FsUnlink(p)
    \/ FsCreate(p)
    \/ \E readable \in BOOLEAN : FsChmod(p, readable)

\* the life of a process that requires the package
Next ==
  \/ FsStep
  \/ InitGetBinaryPath
  \/ InitVerifyBinary
  \/ InitRequire
  \/ InitDecorate
  \/ GetPlatformInfo
  \/ HealthCheck
  \/ \E key \in {"RtAudio", "OpusEncoder", "getDevices", "healthCheck"},
        in \in CallInputs, o \in RawOutcomes :
       CallExport(key, in[1], in[2], o)

Spec == Init /\ [][Next]_vars

\* the functions of index.js applied to every platform and file-system state
VerifyPaths == ArtifactPaths \cup {PathJoin("freebsd-x64")}

UnitNext ==
  \/ FsStep
  \/ ApplyGetBinaryPath
  \/ \E p \in VerifyPaths : ApplyVerifyBinary(p)
  \/ ApplyGetPlatformInfo
  \/ ApplyHealthCheck

\* none of these functions reads process.env
UnitInit == Init /\ ~vscodePid

UnitSpec == UnitInit /\ [][UnitNext]_vars

(***************************************************************************)
(* The install-time scripts                                                *)
(***************************************************************************)
\* the package as unpacked: every artifact absent, unreadable or readable
InstallInit ==
  /\ osPlatform \in OsPlatforms
  /\ osArch \in OsArches
  /\ vscodePid = FALSE
  /\ \E st \in FileStates :
       /\ fs = [p \in ArtifactPaths |-> st]
       /\ mode = [p \in ArtifactPaths |->
                    IF st = "readable" THEN DefaultMode
                    ELSE IF st = "unreadable" THEN NoAccessMode ELSE NoMode]
  /\ fsChanges = 0
  /\ LoaderStart
  /\ InstallerStart
  /\ DownloaderStart

\* the path of the running platform's artifact, "" when there is none
OwnPath == PI_getBinaryPath(osPlatform, osArch).value

\* node scripts/postinstall.js
PostinstallMain(chmodOk) ==
  /\ "postinstall" \notin ran
  /\ LET r == PI_main(osPlatform, osArch, fs, mode, chmodOk)
     IN /\ fs' = r.fs
        /\ mode' = r.mode
        /\ timers' = timers \o r.scheduled
        /\ last' = [op |-> "postinstall", fileAt |-> FileAt(fs, OwnPath),
                    fsBefore |-> fs, modeBefore |-> mode, chmodOk |-> chmodOk,
                    outcome |-> [kind |-> r.kind, path |-> r.path, calls |-> r.calls,
                                 permissions |-> r.permissions,
                                 scheduled |-> r.scheduled]]
  /\ ran' = ran \cup {"postinstall"}
  /\ console' = <<>>
  /\ UNCHANGED <<env, downloader, fsChanges, pc, steps, binaryPath, rawAudify,
                 thrown, exports>>

\* the callback passed to setTimeout runs
TimerFires(loads) ==
  /\ timers # <<>>
  /\ Head(timers) = "runHealthCheck"
  /\ timers' = Tail(timers)
  /\ ran' = ran \cup {"runHealthCheck"}
  /\ last' = [op |-> "runHealthCheck", fileAt |-> FileAt(fs, OwnPath),
              outcome |-> runHealthCheck(osPlatform, osArch, fs, loads)]
  /\ console' = <<>>
  /\ UNCHANGED <<env, downloader, fs, mode, fsChanges, pc, steps, binaryPath,
                 rawAudify, thrown, exports>>

\* node scripts/check-binary.js
CheckBinary(listing) ==
  /\ "check-binary" \notin ran
  /\ ran' = ran \cup {"check-binary"}
  /\ last' = [op |-> "check-binary", fileAt |-> FileAt(fs, OwnPath),
              listing |-> listing.kind,
              outcome |-> CB_main(osPlatform, osArch, fs, listing)]
  /\ console' = <<>>
  /\ UNCHANGED <<env, downloader, timers, fs, mode, fsChanges, pc, steps,
                 binaryPath, rawAudify, thrown, exports>>

\* npm install of the package: the commands of InstallCommands run in order
NpmInstall(chmodOk, listing) ==
  /\ "npm install" \notin ran
  /\ LET runs(cmd) == \E i \in 1..Len(InstallCommands) : InstallCommands[i] = cmd
         c == IF runs("node scripts/check-binary.js")
              THEN CB_main(osPlatform, osArch, fs, listing)
              ELSE [kind |-> "none"]
         r == IF runs("node scripts/postinstall.js")
              THEN PI_main(osPlatform, osArch, fs, mode, chmodOk)
              ELSE [kind |-> "none", fs |-> fs, mode |-> mode, scheduled |-> <<>>,
                    permissions |-> <<>>]
     IN /\ fs' = r.fs
        /\ mode' = r.mode
        /\ timers' = timers \o r.scheduled
        /\ last' = [op |-> "npm install", commands |-> InstallCommands,
                    fileAt |-> FileAt(fs, OwnPath), fsBefore |-> fs,
                    modeBefore |-> mode, chmodOk |-> chmodOk,
                    check |-> c, permissions |-> r.permissions]
  /\ ran' = ran \cup {"npm install"}
  /\ console' = <<>>
  /\ UNCHANGED <<env, downloader, fsChanges, pc, steps, binaryPath, rawAudify,
                 thrown, exports>>

InstallNext ==
  \/ \E chmodOk \in BOOLEAN : PostinstallMain(chmodOk)
  \/ \E loads \in BOOLEAN : TimerFires(loads)
  \/ \E listing \in ListingOutcomes : CheckBinary(listing)
  \/ \E chmodOk \in BOOLEAN, listing \in ListingOutcomes : NpmInstall(chmodOk, listing)

InstallSpec == InstallInit /\ [][InstallNext]_vars

(***************************************************************************)
(* The download script                                                     *)
(***************************************************************************)
\* a checkout with no archive downloaded and no artifact in place
DownloadInit ==
  /\ osPlatform = "linux"
  /\ osArch = "x64"
  /\ vscodePid = FALSE
  /\ fs = [p \in ArtifactPaths |-> "absent"]
  /\ mode = [p \in ArtifactPaths |-> NoMode]
  /\ fsChanges = 0
  /\ LoaderStart
  /\ InstallerStart
  /\ DownloaderStart

\* downloadAndOrganizeBinaries() is called: createDirectories, then the loop
StartDownload ==
  /\ dlPc \in {"idle", "resolved"}
  /\ dlRuns < MaxRuns
  /\ dlRuns' = dlRuns + 1
  /\ dlPc' = "loop"
  /\ dlIndex' = 1
  /\ dlLog' = <<>>
  /\ last' = [op |-> "downloadAndOrganizeBinaries", outcome |-> [kind |-> "pending"]]
  /\ console' = <<>>
  /\ UNCHANGED <<env, installer, fs, mode, fsChanges, pc, steps, binaryPath,
                 rawAudify, thrown, exports, downloads, dlFailures>>

\* one iteration of for (const binary of BINARIES)
ProcessBinary(responses, tarOk, found) ==
  /\ dlPc = "loop"
  /\ dlIndex <= Len(BINARIES)
  /\ LET platform == BINARIES[dlIndex][2]
         t == processBinaryTry(downloads[dlIndex], fs, platform, responses, tarOk, found)
         caused == t.kind = "throw" /\ ~(t.step = "extract" /\ t.file # "complete")
     IN /\ caused => dlFailures < MaxFailures
        /\ dlFailures' = IF caused THEN dlFailures + 1 ELSE dlFailures
        /\ downloads' = [downloads EXCEPT ![dlIndex] = t.file]
        /\ fs' = t.fs
        /\ mode' = [p \in ArtifactPaths |->
                      IF fs[p] = "absent" /\ t.fs[p] # "absent" THEN DefaultMode
                      ELSE mode[p]]
        /\ dlLog' = Append(dlLog, [file |-> BINARIES[dlIndex][1], platform |-> platform,
                                   skipped |-> t.skipped, result |-> t.step])
        /\ dlPc' = LoopCatch(t)
        /\ console' = IF t.kind = "throw"
                      THEN << <<"Failed to process ", platform, ":">> >>
                      ELSE <<>>
  /\ dlIndex' = dlIndex + 1
  /\ UNCHANGED <<env, installer, fsChanges, pc, steps, binaryPath, rawAudify,
                 thrown, exports, last, dlRuns>>

\* after the loop: the summary is printed and the promise resolves
FinishDownload ==
  /\ dlPc = "loop"
  /\ dlIndex > Len(BINARIES)
  /\ dlPc' = "resolved"
  /\ last' = [op |-> "downloadAndOrganizeBinaries",
              outcome |-> [kind |-> "resolve"], summary |-> Summary(fs)]
  /\ console' = <<>>
  /\ UNCHANGED <<env, installer, fs, mode, fsChanges, pc, steps, binaryPath,
                 rawAudify, thrown, exports, downloads, dlIndex, dlRuns,
                 dlFailures, dlLog>>

DownloadNext ==
  \/ StartDownload
  \/ \E responses \in DownloadResponses, tarOk \in BOOLEAN, found \in BOOLEAN :
       ProcessBinary(responses, tarOk, found)
  \/ FinishDownload

DownloadSpec == DownloadInit /\ [][DownloadNext]_vars

(***************************************************************************)
(* Properties                                                              *)
(***************************************************************************)
\* the platform table of the specification: the supported keys, each mapped
\* to the directory of the same name
TableKeys ==
  {"win32-x64", "win32-ia32", "win32-arm64", "darwin-x64", "darwin-arm64",
   "linux-x64", "linux-arm64", "linux-arm"}

TablePath(key) == "<root>/prebuilds/" \o key \o "/build/Release/audify.node"

Key == PlatformKey(osPlatform, osArch)
LastStep == IF steps = <<>> THEN "" ELSE steps[Len(steps)]

\* C1: for every key of the platform table getBinaryPath returns exactly
\* <root>/prebuilds/<directory of the key>/build/Release/audify.node; for
\* every other key it raises an error whose message names that key, and
\* returns no path.
C1_GetBinaryPath ==
  last.op = "getBinaryPath" =>
    IF Key \in TableKeys
    THEN last.outcome = [kind |-> "return", value |-> TablePath(Key)]
    ELSE /\ last.outcome.kind = "throw"
         /\ "value" \notin DOMAIN last.outcome
         /\ "[Audify-JS-Plus] Unsupported platform: " \in Tokens(last.outcome.message)
         /\ Key \in Tokens(last.outcome.message)

C1_Witness ==
  /\ last.op = "getBinaryPath"
  /\ Key = "win32-arm64"
  /\ last.outcome.kind = "return"

\* the supported keys a message lists
ListedKeys(message) == Tokens(message) \cap TableKeys

\* initialization failed in getBinaryPath
FailedAtMap == pc = "failed" /\ LastStep = "map"

\* C2 (as claimed): on an unmapped platform module initialization raises an
\* error whose message names the attempted key and lists all nine supported
\* keys of the platform table.
C2_NineKeys ==
  Key \notin TableKeys /\ pc \notin {"start"} =>
    /\ FailedAtMap
    /\ Key \in Tokens(thrown.message)
    /\ Cardinality(ListedKeys(thrown.message)) = 9

\* C2 (amended): on an unmapped platform module initialization raises an
\* error whose message names the attempted key and lists all eight supported
\* keys of the platform table.
C2_EightKeys ==
  Key \notin TableKeys /\ pc \notin {"start"} =>
    /\ FailedAtMap
    /\ Key \in Tokens(thrown.message)
    /\ ListedKeys(thrown.message) = TableKeys
    /\ Cardinality(ListedKeys(thrown.message)) = 8

C2_Witness ==
  /\ Key = "freebsd-x64"
  /\ FailedAtMap
  /\ vscodePid

\* C3: verifyBinary(path) returns true exactly when the path exists and is
\* readable, in every file-system state, and never raises; a path that
\* verified stops verifying once the file is deleted or made unreadable.
C3_VerifyBinary ==
  /\ last.op = "verifyBinary" =>
       /\ last.outcome.kind = "return"
       /\ last.outcome.value = (last.fileAt = "readable")
       /\ last.outcome.value /\ FileAt(fs, last.path) # "readable"
            => verifyBinary(fs, last.path) =
                 [kind |-> "return", value |-> FALSE,
                  log |-> verifyBinary(fs, last.path).log]
  /\ \A p \in VerifyPaths :
       /\ verifyBinary(fs, p).kind = "return"
       /\ verifyBinary(fs, p).value = (FileAt(fs, p) = "readable")

C3_Witness ==
  /\ last.op = "verifyBinary"
  /\ last.outcome.value
  /\ FileAt(fs, last.path) = "unreadable"

\* initialization failed in the verification step
FailedAtVerify == pc = "failed" /\ LastStep = "verify"

\* the error that reaches the caller when verification fails on a file in
\* state `state'
VerifyFailure(state) ==
  InitCatch(loadNativeModuleVerify([fs EXCEPT ![binaryPath] = state], binaryPath).error,
            vscodePid)

\* C4 (as claimed): a verification failure reaches the caller with a distinct
\* error per cause (not found / unreadable), each carrying the path attempted.
C4_DistinctKinds ==
  FailedAtVerify =>
    /\ binaryPath \in Tokens(thrown.message)
    /\ thrown \in {VerifyFailure("absent"), VerifyFailure("unreadable")}
    /\ VerifyFailure("absent") # VerifyFailure("unreadable")

\* C4 (amended): a verification failure reaches the caller with the same error
\* for both causes, carrying the path attempted; only the console.error line
\* of verifyBinary tells a missing file from an unreadable one.
C4_SameError ==
  FailedAtVerify =>
    /\ binaryPath \in Tokens(thrown.message)
    /\ thrown = VerifyFailure("absent")
    /\ thrown = VerifyFailure("unreadable")
    /\ last.op = "verifyBinary" /\ last.fileAt # "readable"
    /\ console[1][1] = IF last.fileAt = "absent"
                       THEN "[Audify-JS-Plus] Binary not found: "
                       ELSE "[Audify-JS-Plus] Binary verification failed:"

C4_Witness ==
  /\ FailedAtVerify
  /\ last.fileAt = "unreadable"

\* C5: healthCheck() never raises; on a mapped platform it reports "healthy"
\* when the artifact is present and readable and "unhealthy" otherwise; on an
\* unmapped platform it reports "error" with a non-empty message; the status
\* is "healthy" exactly when the reported exists-flag is true.
C5_HealthCheck ==
  last.op = "healthCheck" =>
    /\ last.outcome.kind = "return"
    /\ LET report == last.outcome.value
       IN /\ Key \in TableKeys /\ last.fileAt = "readable" => report.status = "healthy"
          /\ Key \in TableKeys /\ last.fileAt # "readable" => report.status = "unhealthy"
          /\ Key \notin TableKeys =>
               /\ report.status = "error"
               /\ "error" \in DOMAIN report
               /\ Len(report.error) > 0
          /\ report.status = "healthy" <=>
               ("binaryExists" \in DOMAIN report /\ report.binaryExists = TRUE)

C5_Witness ==
  /\ last.op = "healthCheck"
  /\ Key = "freebsd-x64"
  /\ last.outcome.kind = "return"
  /\ last.outcome.value.status = "error"

\* C6 (as claimed): every report of healthCheck(), whatever its status, has
\* the fields status, platform, artifact path and artifact-exists; only the
\* error field is optional.
C6_AllFields ==
  last.op = "healthCheck" /\ last.outcome.kind = "return" =>
    /\ {"status", "platform", "binaryPath", "binaryExists"} \subseteq DOMAIN last.outcome.value
    /\ DOMAIN last.outcome.value \subseteq
         {"status", "platform", "binaryPath", "binaryExists", "error"}

\* C6 (amended): every report of healthCheck() has the fields status and
\* platform; a healthy or unhealthy report also has the artifact path and the
\* artifact-exists boolean and no error field; an error report has the error
\* message and neither the artifact path nor the artifact-exists field.
C6_ReportShape ==
  last.op = "healthCheck" /\ last.outcome.kind = "return" =>
    LET report == last.outcome.value
    IN /\ {"status", "platform"} \subseteq DOMAIN report
       /\ report.status \in {"healthy", "unhealthy", "error"}
       /\ report.platform = Key
       /\ IF report.status = "error"
          THEN DOMAIN report = {"status", "platform", "error"}
          ELSE /\ DOMAIN report = {"status", "platform", "binaryPath", "binaryExists"}
               /\ report.binaryPath = TablePath(Key)
               /\ report.binaryExists \in BOOLEAN

C6_Witness ==
  /\ last.op = "healthCheck"
  /\ last.outcome.kind = "return"
  /\ last.outcome.value.status = "error"
  /\ Key = "darwin-ia32"

\* the order of the initialization steps
InitOrder == <<"resolve", "map", "verify", "load", "decorate">>

IsPrefix(s, t) == Len(s) <= Len(t) /\ \A i \in 1..Len(s) : s[i] = t[i]

\* part occurs in msg as consecutive tokens
Contains(msg, part) ==
  \E i \in 0..(Len(msg) - Len(part)) : SubSeq(msg, i + 1, i + Len(part)) = part

InitStep == InitGetBinaryPath \/ InitVerifyBinary \/ InitRequire \/ InitDecorate

\* C7: module initialization runs resolve, map, verify, load, decorate in that
\* order, each at most once, and stops at the first failing step by raising:
\* no later step runs, no step is retried, the native module is not loaded
\* when the key is unmapped or verification fails, no export surface is
\* produced, and no other platform's artifact is tried.
C7_LinearInit ==
  /\ IsPrefix(steps, InitOrder)
  /\ pc = "failed" <=> thrown # NoError
  /\ pc = "failed" =>
       /\ LastStep \in {"map", "verify", "load"}
       /\ rawAudify = <<>>
       /\ DOMAIN exports = {}
       /\ ~ENABLED InitStep
  /\ Key \notin TableKeys => pc \in {"start", "failed"} /\ Len(steps) <= 2
  /\ binaryPath \in {"", TablePath(Key)}
  /\ pc = "verified" =>
       /\ last.op = "verifyBinary"
       /\ last.path = TablePath(Key)
       /\ last.fileAt = "readable"
  /\ pc = "loaded" => last.op = "require" /\ last.path = TablePath(Key)
  /\ rawAudify # <<>> => pc \in {"loaded", "done"}
  /\ DOMAIN exports # {} <=> pc = "done"
  /\ pc = "done" => steps = InitOrder

C7_Witness ==
  /\ FailedAtVerify
  /\ steps = <<"resolve", "map", "verify">>
  /\ \E p \in ArtifactPaths : fs[p] = "readable"

\* initialization failed in the dynamic load
FailedAtLoad == pc = "failed" /\ LastStep = "load"

\* C8: when the dynamic load raises, the error that reaches the caller of
\* module initialization contains the loader's error text and the artifact
\* path, with VSCODE_PID unset and with it set (where the error is re-wrapped).
C8_LoadFailure ==
  FailedAtLoad =>
    /\ last.op = "require"
    /\ last.outcome.kind = "throw"
    /\ Contains(thrown.message, last.outcome.message)
    /\ TablePath(Key) \in Tokens(thrown.message)
    /\ vscodePid <=>
         thrown.message[1] = "[Audify-JS-Plus] Failed to initialize in VS Code extension. "

C8_Witness ==
  /\ FailedAtLoad
  /\ vscodePid
  /\ last.outcome.message \in LoaderErrors

\* C9: every function-valued export of the raw module is exported wrapped,
\* and the wrapper passes the receiver and arguments on and preserves the
\* outcome: a returned value is returned without logging, a raised error is
\* logged with the function's name and raised again unchanged.
C9_Wrapper ==
  /\ pc = "done" =>
       \A k \in RawKeys(rawAudify) :
         RawGet(rawAudify, k).type = "function" =>
           /\ k \in DOMAIN exports
           /\ exports[k] = [type |-> "function", wrapped |-> TRUE,
                            fn |-> RawGet(rawAudify, k), functionName |-> k]
  /\ last.op = "call" =>
       /\ last.applied = [fn |-> RawGet(rawAudify, last.key),
                          this |-> last.this, args |-> last.args]
       /\ last.outcome = last.rawOutcome
       /\ last.rawOutcome.kind = "return" => console = <<>>
       /\ last.rawOutcome.kind = "throw" =>
            /\ Len(console) = 1
            /\ last.key \in Tokens(console[1])

C9_Witness ==
  /\ last.op = "call"
  /\ last.this = "other"
  /\ last.rawOutcome.kind = "throw"
  /\ last.outcome.kind = "throw"

\* the keys the exported object is claimed to have
SurfaceKeys ==
  {"OpusApplication", "RtAudioApi", "RtAudioFormat", "RtAudioStreamFlags",
   "RtAudioErrorType", "getPlatformInfo", "healthCheck"}

\* linux-x64 with the artifact present and readable all along
LinuxX64Present ==
  /\ Key = "linux-x64"
  /\ fsChanges = 0
  /\ fs[TablePath("linux-x64")] = "readable"

HealthyLinuxReport ==
  [status |-> "healthy", platform |-> "linux-x64",
   binaryPath |-> TablePath("linux-x64"), binaryExists |-> TRUE]

\* the raw module exports a function named healthCheck
RawHealthCheck ==
  /\ "healthCheck" \in RawKeys(rawAudify)
  /\ RawGet(rawAudify, "healthCheck").type = "function"

RECURSIVE BitAnd(_, _)
BitAnd(a, b) ==
  IF a = 0 \/ b = 0 THEN 0
  ELSE (IF a % 2 = 1 /\ b % 2 = 1 THEN 1 ELSE 0) + 2 * BitAnd(a \div 2, b \div 2)

RECURSIVE BitOr(_, _)
BitOr(a, b) ==
  IF a = 0 THEN b
  ELSE IF b = 0 THEN a
  ELSE (IF a % 2 = 1 \/ b % 2 = 1 THEN 1 ELSE 0) + 2 * BitOr(a \div 2, b \div 2)

\* the bitwise OR of the values of the names in S
RECURSIVE OrAll(_, _)
OrAll(table, S) ==
  IF S = {} THEN 0
  ELSE LET n == CHOOSE x \in S : TRUE
       IN BitOr(table[n], OrAll(table, S \ {n}))

IsPowerOfTwo(n) == n > 0 /\ BitAnd(n, n - 1) = 0

Injective(table) ==
  \A m, n \in DOMAIN table : table[m] = table[n] => m = n

\* the names whose value is contained in a mask
Members(table, mask) == {n \in DOMAIN table : BitAnd(table[n], mask) # 0}

\* every set of names is read back from the OR of its values
Recoverable(table) ==
  \A S \in SUBSET DOMAIN table : Members(table, OrAll(table, S)) = S

BitFlagTable(table) ==
  /\ \A n \in DOMAIN table : IsPowerOfTwo(table[n])
  /\ Injective(table)
  /\ Recoverable(table)

FormatsAndFlagsAreBitFlags ==
  /\ BitFlagTable(RtAudioFormat)
  /\ BitFlagTable(RtAudioStreamFlags)

AllTablesInjective ==
  /\ Injective(OpusApplication)
  /\ Injective(RtAudioApi)
  /\ Injective(RtAudioFormat)
  /\ Injective(RtAudioStreamFlags)
  /\ Injective(RtAudioErrorType)

ConstantTableNames ==
  {"OpusApplication", "RtAudioApi", "RtAudioFormat", "RtAudioStreamFlags",
   "RtAudioErrorType"}

C13_HealthAtCallTime ==
  /\ pc = "done" => Key \in TableKeys /\ binaryPath = TablePath(Key)
  /\ last.op = "healthCheck" =>
       /\ pc = "done"
       /\ last.outcome.kind = "return"
       /\ last.outcome.value.status \in {"healthy", "unhealthy"}
       /\ last.outcome.value.status = "healthy" <=> last.fileAt = "readable"
       /\ last.outcome.value.binaryExists <=> last.fileAt = "readable"
       /\ last.outcome.value.platform = Key
       /\ last.outcome.value.binaryPath = binaryPath
  /\ last.op = "getPlatformInfo" =>
       /\ pc = "done"
       /\ last.outcome.kind = "return"
       /\ last.outcome.value.key = Key
       /\ last.outcome.value.binaryPath = binaryPath

\* the artifact was readable at load time, was changed since, and the report
\* follows the change
C13_Witness ==
  /\ pc = "done"
  /\ fsChanges = MaxFsChanges
  /\ last.op = "healthCheck"
  /\ last.fileAt = "unreadable"
  /\ last.outcome.value.status = "unhealthy"
  /\ fs[binaryPath] = "unreadable"

\* C18 (as claimed): after a successful initialization the exported
\* getPlatformInfo, healthCheck and the five constant tables are the
\* loader's own, whatever the raw module exports under the same names.
C18_OwnExportsKept ==
  pc = "done" =>
    \A k \in ConstantTableNames \cup {"getPlatformInfo", "healthCheck"} :
      /\ k \in DOMAIN exports
      /\ exports[k] = OwnExports[k]

\* the directory each copy of the platform table gives for a key ("" if none)
DirectoryIn(map, key) == Lookup(map, key)

\* C14 (as claimed): for the key of the running platform, the tables of
\* index.js, scripts/postinstall.js, scripts/check-binary.js and the loader of
\* direct-test.js hold the same directory, which is the one of the
\* specification's table: the key itself for the eight supported keys, and no
\* entry for any other key.
C14_SameTables ==
  LET expected == IF Key \in TableKeys THEN Key ELSE ""
  IN /\ DirectoryIn(PLATFORM_MAP, Key) = expected
     /\ DirectoryIn(PI_PLATFORM_MAP, Key) = expected
     /\ DirectoryIn(CB_PLATFORM_MAP, Key) = expected
     /\ DirectoryIn(DT_platformMap, Key) = expected
     /\ DT_binaryPath(osPlatform, osArch).kind = getBinaryPath(osPlatform, osArch).kind

\* whether a table of index.js and a table of direct-test.js hold the same
\* value under corresponding names (the index.js name is prefix \o name)
SameValues(table, prefix, dtTable) ==
  /\ DOMAIN table = {prefix \o n : n \in DOMAIN dtTable}
  /\ \A n \in DOMAIN dtTable : table[prefix \o n] = dtTable[n]

\* the tables the loader of direct-test.js exports, under the names index.js
\* gives to the same constants
DT_Formats ==
  [n \in {"SINT8", "SINT16", "SINT24", "SINT32", "FLOAT32", "FLOAT64"} |->
     DT_RtAudioFormat["RTAUDIO_" \o n]]
DT_Flags ==
  [n \in {"NONINTERLEAVED", "MINIMIZE_LATENCY", "HOG_DEVICE", "SCHEDULE_REALTIME",
          "ALSA_USE_DEFAULT", "JACK_DONT_CONNECT"} |->
     DT_RtAudioStreamFlags["RTAUDIO_" \o n]]

\* C15 (as claimed): every constant exported by index.js has the same integer
\* value as the corresponding identifier of the loader in direct-test.js.
C15_SameConstants ==
  pc = "done" =>
    /\ SameValues(exports["OpusApplication"].table, "", DT_OpusApplication)
    /\ SameValues(exports["RtAudioFormat"].table, "RTAUDIO_FORMAT_", DT_Formats)
    /\ SameValues(exports["RtAudioStreamFlags"].table, "RTAUDIO_FLAGS_", DT_Flags)
    /\ SameValues(exports["RtAudioErrorType"].table, "RTAUDIO_ERROR_", DT_RtAudioErrorType)
    /\ SameValues(exports["RtAudioApi"].table, "RTAUDIO_API_", DT_RtAudioApi)

\* the part of C15 that does hold: every table but RtAudioApi agrees
C15_AllButApi ==
  pc = "done" =>
    /\ SameValues(exports["OpusApplication"].table, "", DT_OpusApplication)
    /\ SameValues(exports["RtAudioFormat"].table, "RTAUDIO_FORMAT_", DT_Formats)
    /\ SameValues(exports["RtAudioStreamFlags"].table, "RTAUDIO_FLAGS_", DT_Flags)
    /\ SameValues(exports["RtAudioErrorType"].table, "RTAUDIO_ERROR_", DT_RtAudioErrorType)

\* C12 (as claimed): on a non-Windows target the install step leaves the
\* resolved artifact with permission bits 0o755 whenever the file exists and
\* the change is permitted; on Windows it leaves the permissions unchanged
\* and reports success; when the file is absent or chmod fails it changes
\* nothing and reports failure.
C12_InstallSetsPermissions ==
  last.op = "npm install" /\ Key \in TableKeys =>
    LET p == TablePath(Key)
        changeable == last.fsBefore[p] # "absent" /\ last.chmodOk
    IN /\ osPlatform # "win32" /\ changeable =>
            /\ mode[p] = ExecutableMode
            /\ last.permissions = <<TRUE>>
       /\ osPlatform = "win32" =>
            /\ mode = last.modeBefore
            /\ last.permissions = <<TRUE>>
       /\ osPlatform # "win32" /\ ~changeable =>
            /\ mode = last.modeBefore
            /\ last.permissions = <<FALSE>>

\* what C12 says, of scripts/postinstall.js run by hand: this holds
C12_ScriptSetsPermissions ==
  last.op = "postinstall" /\ Key \in TableKeys =>
    LET p == TablePath(Key)
        changeable == last.fsBefore[p] # "absent" /\ last.chmodOk
    IN /\ last.outcome.kind = "return"
       /\ osPlatform # "win32" /\ changeable =>
            /\ mode = [last.modeBefore EXCEPT ![p] = ExecutableMode]
            /\ last.outcome.permissions = <<TRUE>>
       /\ osPlatform = "win32" =>
            /\ mode = last.modeBefore
            /\ last.outcome.permissions = <<TRUE>>
       /\ osPlatform # "win32" /\ ~changeable =>
            /\ mode = last.modeBefore
            /\ last.outcome.permissions = <<FALSE>>

\* C16: on an unmapped platform the install-time scripts degrade: both
\* getBinaryPath return null without raising, main() of postinstall.js
\* returns having made no file-system call, changed no file and scheduled no
\* health check, and verifyBinary(null) of check-binary.js returns false
\* having made no file-system call; getBinaryPath of index.js raises for the
\* same key.
C16_UnmappedDegraded ==
  Key \notin TableKeys =>
    /\ PI_getBinaryPath(osPlatform, osArch).kind = "return"
    /\ PI_getBinaryPath(osPlatform, osArch).value = ""
    /\ CB_getBinaryPath(osPlatform, osArch).kind = "return"
    /\ CB_getBinaryPath(osPlatform, osArch).value = ""
    /\ getBinaryPath(osPlatform, osArch).kind = "throw"
    /\ timers = <<>>
    /\ "runHealthCheck" \notin ran
    /\ last.op = "postinstall" =>
         /\ last.outcome.kind = "return"
         /\ last.outcome.calls = <<>>
         /\ last.outcome.scheduled = <<>>
         /\ fs = last.fsBefore
         /\ mode = last.modeBefore
    /\ last.op = "check-binary" =>
         /\ last.outcome.kind = "return"
         /\ last.outcome.path = ""
         /\ last.outcome.verified = FALSE
         /\ last.outcome.calls = <<>>

\* both scripts have run on an unmapped platform whose artifacts are readable
C16_Witness ==
  /\ Key = "freebsd-x64"
  /\ {"postinstall", "check-binary"} \subseteq ran
  /\ last.op = "postinstall"
  /\ \A p \in ArtifactPaths : fs[p] = "readable" /\ mode[p] = DefaultMode

\* C17 (as claimed): verifyBinary of check-binary.js returns true exactly
\* when the artifact exists and is readable, whatever the outcome of the
\* directory listing.
C17_ListingInformational ==
  last.op = "check-binary" =>
    (last.outcome.verified <=> last.fileAt = "readable")

\* what does hold: with a listing that succeeds, whatever files it finds, the
\* result is true exactly when the artifact exists and is readable
C17_WhenListingSucceeds ==
  last.op = "check-binary" /\ last.listing = "return" =>
    (last.outcome.verified <=> last.fileAt = "readable")

\* C19: downloadAndOrganizeBinaries processes every entry of BINARIES in
\* list order, one at a time; a failure of the download, of the extraction
\* or of the search for the .node file of one platform is caught: the later
\* platforms are still processed, the summary is printed and the promise
\* resolves, never rejects; for every platform whose steps all succeed the
\* target prebuilds/<platform>/build/Release/audify.node exists afterwards.
C19_EveryEntryProcessed ==
  /\ dlPc # "rejected"
  /\ Len(dlLog) <= Len(BINARIES)
  /\ \A i \in 1..Len(dlLog) :
       /\ dlLog[i].file = BINARIES[i][1]
       /\ dlLog[i].platform = BINARIES[i][2]
       /\ dlLog[i].result = "completed" =>
            fs["<root>/prebuilds/" \o dlLog[i].platform \o "/build/Release/audify.node"]
              # "absent"
  /\ dlPc = "loop" => Len(dlLog) = dlIndex - 1
  /\ dlPc = "resolved" =>
       /\ Len(dlLog) = Len(BINARIES)
       /\ last.op = "downloadAndOrganizeBinaries"
       /\ last.outcome.kind = "resolve"
       /\ Len(last.summary) = Len(BINARIES)
       /\ \A i \in 1..Len(BINARIES) :
            last.summary[i] =
              <<BINARIES[i][2],
                fs["<root>/prebuilds/" \o BINARIES[i][2] \o "/build/Release/audify.node"]
                  # "absent">>

\* a run that resolved although an entry failed, with a later entry completed
C19_Witness ==
  /\ dlPc = "resolved"
  /\ \E i, j \in 1..Len(dlLog) :
       /\ i < j
       /\ dlLog[i].result = "download"
       /\ dlLog[j].result = "completed"
       /\ fs[TablePath(dlLog[i].platform)] = "absent"
       /\ fs[TablePath(dlLog[j].platform)] = "readable"

\* C20 (as claimed): a download that fails leaves no file at its download
\* path, so a file is present there only after a download of it completed,
\* and a later run skips the download only of archives that were downloaded
\* completely.
C20_FailedDownloadLeavesNoFile ==
  /\ \A i \in 1..Len(BINARIES) : downloads[i] \in {"absent", "complete"}
  /\ \A i \in 1..Len(dlLog) : dlLog[i].skipped => downloads[i] = "complete"

\* the platforms the download script has an archive for
BinariesPlatforms == {BINARIES[i][2] : i \in 1..Len(BINARIES)}

\* a run of downloadAndOrganizeBinaries has resolved with every step of
\* every entry succeeding
AllStepsSucceeded ==
  /\ dlPc = "resolved"
  /\ Len(dlLog) = Len(BINARIES)
  /\ \A i \in 1..Len(dlLog) : dlLog[i].result = "completed"

\* C21 (as claimed): every key of the loader's platform table has an entry
\* in BINARIES, so after a run of downloadAndOrganizeBinaries in which every
\* step succeeds the artifact is present for every supported key and
\* healthCheck on any supported platform reports healthy.
C21_AllKeysDownloaded ==
  AllStepsSucceeded =>
    \A platform \in OsPlatforms, arch \in OsArches :
      LET g == getBinaryPath(platform, arch)
      IN g.kind = "return" =>
           /\ PlatformKey(platform, arch) \in BinariesPlatforms
           /\ existsSync(fs, g.value)
           /\ healthCheck(platform, arch, fs).value.status = "healthy"

\* what does hold: after such a run healthCheck reports healthy on every
\* platform BINARIES lists, and every listed platform is a key of the table
C21_ListedKeysHealthy ==
  AllStepsSucceeded =>
    \A platform \in OsPlatforms, arch \in OsArches :
      PlatformKey(platform, arch) \in BinariesPlatforms =>
        /\ getBinaryPath(platform, arch).kind = "return"
        /\ healthCheck(platform, arch, fs).value.status = "healthy"
====
